---- MODULE Spec2Model ----
(***************************************************************************)
(* Model of scripts/generate_track_data.py: the staleness check on the     *)
(* build marker of TrackData.lua, the join of the two DB2 tables into the  *)
(* bonus-id -> track-name mapping, and the run of main() that regenerates  *)
(* the artifact or leaves it alone.                                        *)
(*                                                                         *)
(* Strings that the program parses are sequences of one-character strings, *)
(* so that strip(), int() and the marker regex are computed, not assumed.  *)
(***************************************************************************)
EXTENDS Integers, Sequences, FiniteSets, TLC

VARIABLES
    output,          \* TrackData.lua: [exists, text], text a sequence of lines
    template_exists, \* whether scripts/TrackData.template is deployed
    pc,              \* position of the run inside main()
    force,           \* args.force
    should_regen,    \* first component of should_regenerate's result
    reason,          \* second component of should_regenerate's result
    build_version,   \* main's build_version (line 250)
    tables,          \* <<>> or <<bonus_list_groups, group_entries>> as fetched
    group_to_track,  \* build_track_mapping's group_to_track (ordered dict)
    group_to_bonuses,\* build_track_mapping's group_to_bonuses (ordered dict)
    bonus_to_track,  \* main's bonus_to_track
    exit_code,       \* -1 while running, then the process status
    upstream,        \* what the builds API answers now: None or Some(version)
    fetch_log,       \* results of fetch_current_build() in this run, in order
    n_marker_parse,  \* calls of get_existing_build() in this run
    n_table_fetch,   \* calls of fetch_db2_table() in this run
    n_write,         \* writes of TrackData.lua in this run
    before,          \* TrackData.lua as it was when the run started
    changed,         \* the builds API's answer changed since the run started
    prev,            \* the previous run: [steady, tables]
    stuck            \* an empty artifact written for a resolved build

vars == <<output, template_exists, pc, force, should_regen, reason,
          build_version, tables, group_to_track, group_to_bonuses,
          bonus_to_track, exit_code, upstream, fetch_log, n_marker_parse,
          n_table_fetch, n_write, before, changed, prev, stuck>>

----------------------------------------------------------------------------
(* Bounds of the model. *)

MaxVerLen == 2
MaxGroupRows == 3
MaxEntryRows == 2

----------------------------------------------------------------------------
(* Strings and optional strings. *)

Chars == {"1", " "}

RECURSIVE StringsUpTo(_)
StringsUpTo(n) ==
    IF n = 0 THEN {<<>>}
    ELSE LET shorter == StringsUpTo(n - 1)
         IN  shorter \cup {Append(s, c) : s \in shorter, c \in Chars}

\* The version strings the builds API may carry in wow[0].version.
Versions == StringsUpTo(MaxVerLen)

None == [some |-> FALSE, val |-> <<>>]
Some(s) == [some |-> TRUE, val |-> s]

\* Python truthiness of a str | None: neither None nor "".
Truthy(o) == o.some /\ o.val # <<>>

IsSpace(c) == c = " "

RECURSIVE LStrip(_)
LStrip(s) ==
    IF s = <<>> THEN s
    ELSE IF IsSpace(Head(s)) THEN LStrip(Tail(s)) ELSE s

RECURSIVE RStrip(_)
RStrip(s) ==
    IF s = <<>> THEN s
    ELSE IF IsSpace(s[Len(s)]) THEN RStrip(SubSeq(s, 1, Len(s) - 1)) ELSE s

\* str.strip()
Strip(s) == RStrip(LStrip(s))

UNKNOWN == <<"u", "n", "k", "n", "o", "w", "n">>

----------------------------------------------------------------------------
(* fetch_current_build: None on a transport or parse error, a missing      *)
(* "wow" key or an empty array; otherwise whatever wow[0].version holds,    *)
(* "" when the field is missing. BuildAnswers are the answers the builds    *)
(* API can give; the call returns the answer it gives at that moment.       *)

BuildAnswers == {None} \cup {Some(v) : v \in Versions}

fetch_current_build(answer) == answer

----------------------------------------------------------------------------
(* The artifact's text: a sequence of lines. A line is the literal text it *)
(* starts with (pre), the characters after it (body) and, for a data       *)
(* entry, the bonus id and the track name.                                 *)

BuildPrefix == "-- Build: "

Line(pre, body, key, val) == [pre |-> pre, body |-> body, key |-> key, val |-> val]

NoFile == [exists |-> FALSE, text |-> <<>>]
File(text) == [exists |-> TRUE, text |-> text]

\* re.search(r"^-- Build: (.+)$", content, re.MULTILINE) on one line: the
\* line starts with the prefix and at least one character follows it.
MarkerMatch(line) == line.pre = BuildPrefix /\ Len(line.body) >= 1

get_existing_build(output_path) ==
    IF ~output_path.exists THEN None
    ELSE LET hits == {i \in 1..Len(output_path.text) : MarkerMatch(output_path.text[i])}
         IN  IF hits = {} THEN None
             ELSE LET first == CHOOSE i \in hits : \A j \in hits : i <= j
                  IN  Some(Strip(output_path.text[first].body))

----------------------------------------------------------------------------
(* should_regenerate(output_path, force). answer is what the builds API    *)
(* answers when the function gets as far as line 95.                       *)

Reason(msg, old, new) == [msg |-> msg, old |-> old, new |-> new]

\* Whether should_regenerate reaches line 91 and line 95.
ParsesMarker(output_path, f) == ~f /\ output_path.exists
FetchesBuild(output_path, f) ==
    ParsesMarker(output_path, f) /\ Truthy(get_existing_build(output_path))

\* Variants of should_regenerate with one rule wrong.
should_regenerate_inverted(output_path, f, answer) ==
    IF f THEN <<TRUE, Reason("forced regeneration", <<>>, <<>>)>>
    ELSE IF ~output_path.exists
    THEN <<TRUE, Reason("TrackData.lua does not exist", <<>>, <<>>)>>
    ELSE LET existing_build == get_existing_build(output_path)
         IN  IF ~Truthy(existing_build)
             THEN <<TRUE, Reason("could not determine existing build version", <<>>, <<>>)>>
             ELSE LET current_build == fetch_current_build(answer)
                  IN  IF ~Truthy(current_build)
                      THEN <<FALSE, Reason("could not fetch current build", <<>>, <<>>)>>
                      ELSE IF existing_build.val = current_build.val
                      THEN <<TRUE, Reason("build changed: ", existing_build.val,
                                          current_build.val)>>
                      ELSE <<FALSE, Reason("already up to date (build ",
                                           existing_build.val, <<>>)>>

should_regenerate_eager(output_path, f, answer) ==
    IF f THEN <<TRUE, Reason("forced regeneration", <<>>, <<>>)>>
    ELSE IF ~output_path.exists
    THEN <<TRUE, Reason("TrackData.lua does not exist", <<>>, <<>>)>>
    ELSE LET existing_build == get_existing_build(output_path)
             current_build == fetch_current_build(answer)
         IN  IF ~Truthy(existing_build)
             THEN <<TRUE, Reason("could not determine existing build version", <<>>, <<>>)>>
             ELSE IF existing_build.val # current_build.val
             THEN <<TRUE, Reason("build changed: ", existing_build.val,
                                 current_build.val)>>
             ELSE <<FALSE, Reason("already up to date (build ",
                                  existing_build.val, <<>>)>>

should_regenerate_force_last(output_path, f, answer) ==
    IF ~output_path.exists
    THEN <<TRUE, Reason("TrackData.lua does not exist", <<>>, <<>>)>>
    ELSE LET existing_build == get_existing_build(output_path)
         IN  IF ~Truthy(existing_build)
             THEN <<TRUE, Reason("could not determine existing build version", <<>>, <<>>)>>
             ELSE LET current_build == fetch_current_build(answer)
                  IN  IF ~Truthy(current_build)
                      THEN <<FALSE, Reason("could not fetch current build", <<>>, <<>>)>>
                      ELSE IF existing_build.val # current_build.val
                      THEN <<TRUE, Reason("build changed: ", existing_build.val,
                                          current_build.val)>>
                      ELSE IF f
                      THEN <<TRUE, Reason("forced regeneration", <<>>, <<>>)>>
                      ELSE <<FALSE, Reason("already up to date (build ",
                                           existing_build.val, <<>>)>>

should_regenerate(output_path, f, answer) ==
    IF f THEN <<TRUE, Reason("forced regeneration", <<>>, <<>>)>>
    ELSE IF ~output_path.exists
    THEN <<TRUE, Reason("TrackData.lua does not exist", <<>>, <<>>)>>
    ELSE LET existing_build == get_existing_build(output_path)
         IN  IF ~Truthy(existing_build)
             THEN <<TRUE, Reason("could not determine existing build version", <<>>, <<>>)>>
             ELSE LET current_build == fetch_current_build(answer)
                  IN  IF ~Truthy(current_build)
                      THEN <<FALSE, Reason("could not fetch current build", <<>>, <<>>)>>
                      ELSE IF existing_build.val # current_build.val
                      THEN <<TRUE, Reason("build changed: ", existing_build.val,
                                          current_build.val)>>
                      ELSE <<FALSE, Reason("already up to date (build ",
                                           existing_build.val, <<>>)>>

----------------------------------------------------------------------------
(* Rows of a fetched DB2 table: a function from column name to the cell's  *)
(* text. fetch_db2_table leaves out the columns a short line has no value  *)
(* for, and returns [] on a request error or a body without data lines.    *)

ColGroup == "ItemBonusListGroupID"
ColTrack == "Field_10_1_0_48898_002"
ColBonus == "ItemBonusListID"

\* row.get(col, "")
Get(row, col) == IF col \in DOMAIN row THEN row[col] ELSE <<>>

DigitVal ==
    "0" :> 0 @@ "1" :> 1 @@ "2" :> 2 @@ "3" :> 3 @@ "4" :> 4 @@
    "5" :> 5 @@ "6" :> 6 @@ "7" :> 7 @@ "8" :> 8 @@ "9" :> 9

\* int(s) raises ValueError unless s is a numeral.
IsInt(s) == s # <<>> /\ \A i \in 1..Len(s) : s[i] \in DOMAIN DigitVal

RECURSIVE IntOf(_, _)
IntOf(s, acc) ==
    IF s = <<>> THEN acc ELSE IntOf(Tail(s), 10 * acc + DigitVal[Head(s)])

\* int(s) for a numeral s
Int_(s) == IntOf(s, 0)

TRACK_NAMES ==
    1 :> "explorer" @@ 2 :> "adventurer" @@ 3 :> "veteran" @@
    4 :> "champion" @@ 5 :> "hero" @@ 6 :> "myth"

----------------------------------------------------------------------------
(* Python dicts keep insertion order: a dict that is iterated is a         *)
(* sequence of <<key, value>> pairs, an assignment to a present key keeps  *)
(* the key's place.                                                        *)

DictKeys(d) == {d[i][1] : i \in 1..Len(d)}
DictGet(d, k, default) ==
    IF k \in DictKeys(d)
    THEN d[CHOOSE i \in 1..Len(d) : d[i][1] = k][2]
    ELSE default
DictSet(d, k, v) ==
    IF k \in DictKeys(d)
    THEN [d EXCEPT ![CHOOSE i \in 1..Len(d) : d[i][1] = k] = <<k, v>>]
    ELSE Append(d, <<k, v>>)

\* A dict that is only written, sorted and rendered: a function.
EmptyMap == [b \in {} |-> ""]
\* A variant that keeps the first value written for a key.
MapSet_keep_first(m, k, v) ==
    [b \in DOMAIN m \cup {k} |-> IF b \in DOMAIN m THEN m[b] ELSE v]

MapSet(m, k, v) == [b \in DOMAIN m \cup {k} |-> IF b = k THEN v ELSE m[b]]

----------------------------------------------------------------------------
(* build_track_mapping, lines 153-201.                                     *)

\* A variant of the pass below without the test of line 164.
TrackRow_any_track(d, row) ==
    LET group_id == Get(row, ColGroup)
        track_num == Get(row, ColTrack)
    IN  IF group_id # <<>> /\ track_num # <<>>
        THEN IF IsInt(group_id) /\ IsInt(track_num)
             THEN DictSet(d, Int_(group_id), Int_(track_num))
             ELSE d
        ELSE d

\* One pass of the loop at lines 156-167.
TrackRow(d, row) ==
    LET group_id == Get(row, ColGroup)
        track_num == Get(row, ColTrack)
    IN  IF group_id # <<>> /\ track_num # <<>>
        THEN IF IsInt(group_id) /\ IsInt(track_num)
             THEN IF Int_(track_num) \in DOMAIN TRACK_NAMES
                  THEN DictSet(d, Int_(group_id), Int_(track_num))
                  ELSE d
             ELSE d
        ELSE d

RECURSIVE TrackLoop(_, _)
TrackLoop(rows, d) ==
    IF rows = <<>> THEN d ELSE TrackLoop(Tail(rows), TrackRow(d, Head(rows)))

\* group_to_track after the loop over bonus_list_groups
GroupToTrack(bonus_list_groups) == TrackLoop(bonus_list_groups, <<>>)

\* One pass of the loop at lines 173-184.
BonusRow(d, row) ==
    LET group_id == Get(row, ColGroup)
        bonus_id == Get(row, ColBonus)
    IN  IF group_id # <<>> /\ bonus_id # <<>>
        THEN IF IsInt(group_id) /\ IsInt(bonus_id)
             THEN DictSet(d, Int_(group_id),
                          Append(DictGet(d, Int_(group_id), <<>>), Int_(bonus_id)))
             ELSE d
        ELSE d

RECURSIVE BonusLoop(_, _)
BonusLoop(rows, d) ==
    IF rows = <<>> THEN d ELSE BonusLoop(Tail(rows), BonusRow(d, Head(rows)))

\* group_to_bonuses after the loop over group_entries
GroupToBonuses(group_entries) == BonusLoop(group_entries, <<>>)

\* The inner loop at lines 196-197.
RECURSIVE AssignAll(_, _, _)
AssignAll(m, bonus_ids, track_name) ==
    IF bonus_ids = <<>> THEN m
    ELSE AssignAll(MapSet(m, Head(bonus_ids), track_name), Tail(bonus_ids), track_name)

\* The loop at lines 190-197 over group_to_track.items().
RECURSIVE JoinLoop(_, _, _)
JoinLoop(items, g2b, m) ==
    IF items = <<>> THEN m
    ELSE LET group_id == Head(items)[1]
             track_num == Head(items)[2]
         IN  IF track_num \notin DOMAIN TRACK_NAMES
             THEN JoinLoop(Tail(items), g2b, m)
             ELSE JoinLoop(Tail(items), g2b,
                           AssignAll(m, DictGet(g2b, group_id, <<>>),
                                     TRACK_NAMES[track_num]))

\* build_track_mapping given what the two fetches returned: the two
\* intermediate dicts (never built on the early return) and the result.
build_track_mapping(bonus_list_groups, group_entries) ==
    IF bonus_list_groups = <<>> \/ group_entries = <<>>
    THEN [group_to_track |-> <<>>, group_to_bonuses |-> <<>>,
          bonus_to_track |-> EmptyMap]
    ELSE LET g2t == GroupToTrack(bonus_list_groups)
             g2b == GroupToBonuses(group_entries)
         IN  [group_to_track |-> g2t, group_to_bonuses |-> g2b,
              bonus_to_track |-> JoinLoop(g2t, g2b, EmptyMap)]

----------------------------------------------------------------------------
(* generate_lua, lines 204-224.                                            *)

\* dict(sorted(bonus_to_track.items())): the items by ascending bonus id.
RECURSIVE SortedItems(_)
SortedItems(m) ==
    IF DOMAIN m = {} THEN <<>>
    ELSE LET k == CHOOSE x \in DOMAIN m : \A y \in DOMAIN m : x <= y
         IN  <<<<k, m[k]>>>> \o SortedItems([b \in DOMAIN m \ {k} |-> m[b]])

RECURSIVE EntryLines(_)
EntryLines(items) ==
    IF items = <<>> THEN <<>>
    ELSE <<Line("entry", <<>>, Head(items)[1], Head(items)[2])>>
         \o EntryLines(Tail(items))

\* TrackData.template rendered with track_ids and build_version: a header
\* comment, the marker line "-- Build: <build_version>", the table.
RenderTemplate(track_ids, version) ==
    <<Line("-- TrackData (generated)", <<>>, 0, ""),
      Line(BuildPrefix, version, 0, ""),
      Line("TrackData = {", <<>>, 0, "")>>
    \o EntryLines(track_ids)
    \o <<Line("}", <<>>, 0, "")>>

\* A variant that opens output_path for writing before it looks for the
\* template: the file is truncated when the template is missing.
generate_lua_open_first(mapping, output_path, version, has_template) ==
    IF ~has_template
    THEN [output |-> File(<<>>), wrote |-> 1, exit_code |-> 1]
    ELSE [output |-> File(RenderTemplate(SortedItems(mapping), version)),
          wrote |-> 1, exit_code |-> 0]

\* generate_lua: exits with status 1 before any write when the template is
\* missing, otherwise overwrites output_path with the rendered text.
generate_lua(mapping, output_path, version, has_template) ==
    IF ~has_template
    THEN [output |-> output_path, wrote |-> 0, exit_code |-> 1]
    ELSE [output |-> File(RenderTemplate(SortedItems(mapping), version)),
          wrote |-> 1, exit_code |-> 0]

----------------------------------------------------------------------------
(* The tables a run of main() may be handed by its two fetches.            *)

GroupRow(g, t) == ColGroup :> g @@ ColTrack :> t
EntryRow(g, b) == ColGroup :> g @@ ColBonus :> b

RunGroupTables == {<<>>, <<GroupRow(<<"1">>, <<"2">>)>>}
RunEntryTables == {<<>>, <<EntryRow(<<"1">>, <<"5">>)>>}

\* A file that is not output of this program: a Lua comment, no marker.
ForeignFile == File(<<Line("-- edited by hand", <<>>, 0, "")>>)

NoReason == Reason("", <<>>, <<>>)

----------------------------------------------------------------------------
(* One process after another runs main() on the same TrackData.lua.        *)

Init ==
    /\ output \in {NoFile, ForeignFile}
    /\ template_exists \in BOOLEAN
    /\ upstream \in BuildAnswers
    /\ pc = "idle"
    /\ force = FALSE
    /\ should_regen = FALSE
    /\ reason = NoReason
    /\ build_version = <<>>
    /\ tables = <<>>
    /\ group_to_track = <<>>
    /\ group_to_bonuses = <<>>
    /\ bonus_to_track = EmptyMap
    /\ exit_code = -1
    /\ fetch_log = <<>>
    /\ n_marker_parse = 0
    /\ n_table_fetch = 0
    /\ n_write = 0
    /\ before = output
    /\ changed = FALSE
    /\ prev = [steady |-> FALSE, tables |-> <<>>]
    /\ stuck = [on |-> FALSE, v |-> <<>>]

\* The builds API starts giving another answer (a new build, an outage). A
\* run sees the API only at its fetches, lines 95 and 250, so a change is
\* taken at the last moment before one of them: a change at any other time
\* is seen by the program exactly as this one is.
UpstreamChanges ==
    /\ pc \in {"check", "decided"}
    /\ \E a \in BuildAnswers \ {upstream} :
        /\ upstream' = a
        /\ stuck' = IF stuck.on /\ a # Some(stuck.v)
                    THEN [on |-> FALSE, v |-> <<>>] ELSE stuck
    /\ changed' = TRUE
    /\ UNCHANGED <<output, template_exists, pc, force, should_regen, reason,
                   build_version, tables, group_to_track, group_to_bonuses,
                   bonus_to_track, exit_code, fetch_log, n_marker_parse,
                   n_table_fetch, n_write, before, prev>>

\* A new process starts main() (lines 228-238), with or without --force.
Start ==
    /\ pc \in {"idle", "done"}
    /\ \E f \in BOOLEAN :
        /\ force' = f
        /\ stuck' = IF f THEN [on |-> FALSE, v |-> <<>>] ELSE stuck
    /\ pc' = "check"
    /\ prev' = IF pc = "done"
               THEN [steady |-> ~force /\ ~changed, tables |-> tables]
               ELSE prev
    /\ before' = output
    /\ changed' = FALSE
    /\ should_regen' = FALSE
    /\ reason' = NoReason
    /\ build_version' = <<>>
    /\ tables' = <<>>
    /\ group_to_track' = <<>>
    /\ group_to_bonuses' = <<>>
    /\ bonus_to_track' = EmptyMap
    /\ exit_code' = -1
    /\ fetch_log' = <<>>
    /\ n_marker_parse' = 0
    /\ n_table_fetch' = 0
    /\ n_write' = 0
    /\ UNCHANGED <<output, template_exists, upstream>>

\* Line 241: should_regenerate(output_path, force=args.force).
ShouldRegenerate ==
    /\ pc = "check"
    /\ LET r == should_regenerate(output, force, upstream)
       IN  /\ should_regen' = r[1]
           /\ reason' = r[2]
    /\ fetch_log' = IF FetchesBuild(output, force)
                    THEN Append(fetch_log, fetch_current_build(upstream))
                    ELSE fetch_log
    /\ n_marker_parse' = n_marker_parse + (IF ParsesMarker(output, force) THEN 1 ELSE 0)
    /\ pc' = "decided"
    /\ UNCHANGED <<output, template_exists, force, build_version, tables,
                   group_to_track, group_to_bonuses, bonus_to_track, exit_code,
                   upstream, n_table_fetch, n_write, before, changed, prev, stuck>>

\* Lines 243-245: the run skips and returns.
Skip ==
    /\ pc = "decided"
    /\ ~should_regen
    /\ exit_code' = 0
    /\ pc' = "done"
    /\ UNCHANGED <<output, template_exists, force, should_regen, reason,
                   build_version, tables, group_to_track, group_to_bonuses,
                   bonus_to_track, upstream, fetch_log, n_marker_parse,
                   n_table_fetch, n_write, before, changed, prev, stuck>>

\* Line 250: build_version = fetch_current_build() or "unknown".
FetchBuildVersion ==
    /\ pc = "decided"
    /\ should_regen
    /\ LET current == fetch_current_build(upstream)
       IN  /\ build_version' = IF Truthy(current) THEN current.val ELSE UNKNOWN
           /\ fetch_log' = Append(fetch_log, current)
    /\ pc' = "mapping"
    /\ UNCHANGED <<output, template_exists, force, should_regen, reason, tables,
                   group_to_track, group_to_bonuses, bonus_to_track, exit_code,
                   upstream, n_marker_parse, n_table_fetch, n_write, before,
                   changed, prev, stuck>>

\* Line 252: bonus_to_track = build_track_mapping(), its two fetches included.
BuildTrackMapping ==
    /\ pc = "mapping"
    /\ \E t1 \in RunGroupTables, t2 \in RunEntryTables :
        LET r == build_track_mapping(t1, t2)
        IN  /\ tables' = <<t1, t2>>
            /\ group_to_track' = r.group_to_track
            /\ group_to_bonuses' = r.group_to_bonuses
            /\ bonus_to_track' = r.bonus_to_track
    /\ n_table_fetch' = n_table_fetch + 2
    /\ pc' = "render"
    /\ UNCHANGED <<output, template_exists, force, should_regen, reason,
                   build_version, exit_code, upstream, fetch_log, n_marker_parse,
                   n_write, before, changed, prev, stuck>>

\* Lines 254-259: generate_lua(bonus_to_track, output_path, build_version).
GenerateLua ==
    /\ pc = "render"
    /\ LET r == generate_lua(bonus_to_track, output, build_version, template_exists)
       IN  /\ output' = r.output
           /\ n_write' = n_write + r.wrote
           /\ exit_code' = r.exit_code
           /\ stuck' = IF r.wrote = 0 THEN stuck
                       ELSE IF (tables[1] = <<>> \/ tables[2] = <<>>)
                               /\ Truthy(fetch_log[Len(fetch_log)])
                            THEN [on |-> TRUE, v |-> build_version]
                            ELSE [on |-> FALSE, v |-> <<>>]
    /\ pc' = "done"
    /\ UNCHANGED <<template_exists, force, should_regen, reason, build_version,
                   tables, group_to_track, group_to_bonuses, bonus_to_track,
                   upstream, fetch_log, n_marker_parse, n_table_fetch, before,
                   changed, prev>>

Next ==
    \/ UpstreamChanges
    \/ Start
    \/ ShouldRegenerate
    \/ Skip
    \/ FetchBuildVersion
    \/ BuildTrackMapping
    \/ GenerateLua

Spec == Init /\ [][Next]_vars

----------------------------------------------------------------------------
(* build_track_mapping on its own: the two fetched tables are drawn from   *)
(* rows that are well-formed, out of range, non-numeric or short of a      *)
(* column, and the function is applied to them.                            *)

GroupRows ==
    { GroupRow(<<"1">>, <<"1">>),
      GroupRow(<<"1">>, <<"6">>),
      GroupRow(<<"0", "2">>, <<"3">>),
      GroupRow(<<"1">>, <<"7">>),
      GroupRow(<<"2">>, <<"1", "0">>),
      GroupRow(<<"x">>, <<"1">>) }

EntryRows ==
    { EntryRow(<<"1">>, <<"5">>),
      EntryRow(<<"2">>, <<"5">>),
      EntryRow(<<"2">>, <<"6">>),
      ColGroup :> <<"1">> }

RECURSIVE TablesUpTo(_, _)
TablesUpTo(rows, n) ==
    IF n = 0 THEN {<<>>}
    ELSE LET shorter == TablesUpTo(rows, n - 1)
         IN  shorter \cup {Append(t, r) : t \in shorter, r \in rows}

InitMap ==
    /\ tables \in {<<t1, t2>> : t1 \in TablesUpTo(GroupRows, MaxGroupRows),
                                t2 \in TablesUpTo(EntryRows, MaxEntryRows)}
    /\ pc = "map_start"
    /\ output = NoFile
    /\ template_exists = TRUE
    /\ upstream = None
    /\ force = FALSE
    /\ should_regen = TRUE
    /\ reason = NoReason
    /\ build_version = <<>>
    /\ group_to_track = <<>>
    /\ group_to_bonuses = <<>>
    /\ bonus_to_track = EmptyMap
    /\ exit_code = -1
    /\ fetch_log = <<>>
    /\ n_marker_parse = 0
    /\ n_table_fetch = 0
    /\ n_write = 0
    /\ before = NoFile
    /\ changed = FALSE
    /\ prev = [steady |-> FALSE, tables |-> <<>>]
    /\ stuck = [on |-> FALSE, v |-> <<>>]

\* build_track_mapping() with the two fetches returning tables[1], tables[2].
MapApply ==
    /\ pc = "map_start"
    /\ LET r == build_track_mapping(tables[1], tables[2])
       IN  /\ group_to_track' = r.group_to_track
           /\ group_to_bonuses' = r.group_to_bonuses
           /\ bonus_to_track' = r.bonus_to_track
    /\ n_table_fetch' = n_table_fetch + 2
    /\ pc' = "map_done"
    /\ UNCHANGED <<output, template_exists, force, should_regen, reason,
                   build_version, tables, exit_code, upstream, fetch_log,
                   n_marker_parse, n_write, before, changed, prev, stuck>>

NextMap == MapApply

SpecMap == InitMap /\ [][NextMap]_vars

----------------------------------------------------------------------------
(* Properties of a run of main().                                          *)

Rendered == File(RenderTemplate(SortedItems(bonus_to_track), build_version))

\* The staleness decision table of the design, on its five inputs.
TableRegenerates(f, exists, extractable, resolvable, equal) ==
    IF f THEN TRUE
    ELSE IF ~exists THEN TRUE
    ELSE IF ~extractable THEN TRUE
    ELSE IF ~resolvable THEN FALSE
    ELSE IF equal THEN FALSE
    ELSE TRUE

TableReason(f, exists, extractable, resolvable, equal, old, new) ==
    IF f THEN Reason("forced regeneration", <<>>, <<>>)
    ELSE IF ~exists THEN Reason("TrackData.lua does not exist", <<>>, <<>>)
    ELSE IF ~extractable
    THEN Reason("could not determine existing build version", <<>>, <<>>)
    ELSE IF ~resolvable THEN Reason("could not fetch current build", <<>>, <<>>)
    ELSE IF equal THEN Reason("already up to date (build ", old, <<>>)
    ELSE Reason("build changed: ", old, new)

\* C1: the step of should_regenerate decides by the first matching rule of
\* the table, for every combination of force, artifact present, marker
\* extractable (a non-empty marker is obtained), current build resolvable and
\* marker equal to the current build; rule 6 names the old and the new build.
C1_DecisionTable ==
    [][ (pc = "check" /\ pc' = "decided") =>
          LET marker == get_existing_build(output)
              extractable == Truthy(marker)
              resolvable == Truthy(upstream)
              equal == marker.val = upstream.val
          IN  /\ should_regen' =
                   TableRegenerates(force, output.exists, extractable, resolvable, equal)
              /\ reason' =
                   TableReason(force, output.exists, extractable, resolvable, equal,
                               marker.val, upstream.val) ]_vars

\* A run without force found a marker that differs from the resolved build.
C1_Witness ==
    /\ pc = "decided"
    /\ ~force
    /\ should_regen
    /\ reason.msg = "build changed: "
    /\ reason.old # reason.new
    /\ Len(reason.old) > 0 /\ Len(reason.new) > 0

\* C2 as stated: every run with force ends having written the artifact,
\* with "unknown" embedded when the build was not resolved.
C2_ForceAlwaysWrites ==
    (pc = "done" /\ force) =>
        /\ n_write = 1
        /\ output = Rendered
        /\ (~Truthy(fetch_log[Len(fetch_log)]) => build_version = UNKNOWN)

\* C2 amended: a run with force always decides to regenerate, whatever the
\* marker and the builds API's answer; it ends having written the artifact
\* unless the template is missing, and then it ends with status 1 and no
\* write; the version embedded in the written artifact is "unknown" when the
\* build was not resolved.
C2_ForceRegenerates ==
    /\ (force /\ pc \in {"decided", "mapping", "render", "done"}) => should_regen
    /\ (force /\ pc = "done" /\ template_exists) =>
        /\ n_write = 1
        /\ exit_code = 0
        /\ output = Rendered
        /\ output.text[2] = Line(BuildPrefix, build_version, 0, "")
        /\ Len(fetch_log) = 1
        /\ (~Truthy(fetch_log[1]) => build_version = UNKNOWN)
        /\ (Truthy(fetch_log[1]) => build_version = fetch_log[1].val)
    /\ (force /\ pc = "done" /\ ~template_exists) =>
        /\ n_write = 0
        /\ exit_code = 1

\* A forced run over an artifact whose marker was readable wrote "unknown".
C2_Witness ==
    /\ pc = "done"
    /\ force
    /\ Truthy(get_existing_build(before))
    /\ ~Truthy(fetch_log[1])
    /\ n_write = 1
    /\ get_existing_build(output) = Some(UNKNOWN)

\* C3: of two consecutive runs without force, with the builds API giving
\* the same answer throughout both and the table fetches returning the same
\* tables, the second writes nothing.
C3_SecondRunWritesNothing ==
    ( /\ pc = "done"
      /\ prev.steady
      /\ ~force
      /\ ~changed
      /\ (tables = <<>> \/ prev.tables = <<>> \/ tables = prev.tables) )
    => n_write = 0

\* C4 as stated: a run without force whose every fetch of the current build
\* failed to resolve it writes nothing.
C4_UnresolvedAlwaysSkips ==
    ( /\ pc = "done"
      /\ ~force
      /\ Len(fetch_log) >= 1
      /\ \A i \in 1..Len(fetch_log) : ~Truthy(fetch_log[i]) )
    => n_write = 0

\* C4 amended: a run without force that finds a previous artifact with an
\* extractable marker and cannot resolve the current build skips: it fetches
\* no table, writes nothing and leaves the artifact as it was.
C4_UnresolvedSkipsOverMarker ==
    ( /\ pc = "done"
      /\ ~force
      /\ Truthy(get_existing_build(before))
      /\ Len(fetch_log) >= 1
      /\ ~Truthy(fetch_log[1]) )
    => /\ ~should_regen
       /\ reason.msg = "could not fetch current build"
       /\ n_table_fetch = 0
       /\ n_write = 0
       /\ output = before
       /\ exit_code = 0

\* A run without force skipped over a readable marker, the build unresolved.
C4_Witness ==
    /\ pc = "done"
    /\ ~force
    /\ Truthy(get_existing_build(before))
    /\ Len(fetch_log) = 1
    /\ ~Truthy(fetch_log[1])
    /\ ~should_regen
    /\ output = before

\* C5: after a run that wrote the artifact, get_existing_build extracts from
\* it the build version the run embedded.
C5_MarkerRoundTrip ==
    (pc = "done" /\ n_write = 1) => get_existing_build(output) = Some(build_version)

\* C8: a run changes the artifact only by one complete regeneration. Until
\* generate_lua the artifact is as the run found it; a run that skips has
\* fetched no table, written nothing and ends with status 0; a run that finds
\* the template missing ends with status 1 and has written nothing; every
\* other run ends with status 0 and the artifact is the rendered text.
C8_AllOrNothing ==
    /\ n_write <= 1
    /\ pc \in {"check", "decided", "mapping", "render"} =>
        (output = before /\ n_write = 0 /\ exit_code = -1)
    /\ (pc = "done" /\ ~should_regen) =>
        (n_table_fetch = 0 /\ n_write = 0 /\ output = before /\ exit_code = 0)
    /\ (pc = "done" /\ should_regen /\ ~template_exists) =>
        (n_write = 0 /\ output = before /\ exit_code = 1)
    /\ (pc = "done" /\ should_regen /\ template_exists) =>
        (n_write = 1 /\ output = Rendered /\ exit_code = 0)

\* A regenerating run ended on the missing template, a previous artifact
\* in place.
C8_Witness ==
    /\ pc = "done"
    /\ should_regen
    /\ ~template_exists
    /\ before.exists
    /\ n_table_fetch = 2
    /\ exit_code = 1

\* C9: in a run the build is read from upstream at most once and the marker
\* of the previous artifact is parsed at most once.
C9_ReadOnce ==
    /\ Len(fetch_log) <= 1
    /\ n_marker_parse <= 1

\* C10: once a run has resolved the build as V, got an empty table and
\* written the artifact, the artifact holds the empty mapping and the marker
\* V, and every later run without force skips, for as long as the builds API
\* keeps answering V.
C10_EmptyArtifactPersists ==
    stuck.on =>
        /\ output = File(RenderTemplate(<<>>, stuck.v))
        /\ get_existing_build(output) = Some(stuck.v)
        /\ (n_write = 0 => ~should_regen)

----------------------------------------------------------------------------
(* Properties of build_track_mapping.                                      *)

\* The bonus ids listed under group g in group_to_bonuses.
Listed(g) ==
    LET bonus_ids == DictGet(group_to_bonuses, g, <<>>)
    IN  {bonus_ids[i] : i \in 1..Len(bonus_ids)}

\* The groups of group_to_track, in insertion order, that list bonus id b.
GroupsListing(b) == {i \in 1..Len(group_to_track) : b \in Listed(group_to_track[i][1])}

\* C6: the keys of the mapping are exactly the bonus ids listed in
\* group_to_bonuses under a group of group_to_track (a group without an entry
\* in group_to_bonuses gives none), and each carries the canonical name of
\* the track of the last group, in group_to_track's insertion order, that
\* lists it.
C6_JoinOfTheTables ==
    pc = "map_done" =>
        /\ DOMAIN bonus_to_track =
             UNION {Listed(group_to_track[i][1]) : i \in 1..Len(group_to_track)}
        /\ \A b \in DOMAIN bonus_to_track :
             LET last == CHOOSE i \in GroupsListing(b) :
                             \A j \in GroupsListing(b) : j <= i
             IN  bonus_to_track[b] = TRACK_NAMES[group_to_track[last][2]]

\* A bonus id listed under two groups of different tracks was mapped.
C6_Witness ==
    /\ pc = "map_done"
    /\ \E b \in DOMAIN bonus_to_track :
         \E i, j \in GroupsListing(b) :
             /\ i < j
             /\ group_to_track[i][2] # group_to_track[j][2]
             /\ bonus_to_track[b] = TRACK_NAMES[group_to_track[j][2]]

\* The rows of bonus_list_groups that are well-formed with a track number in
\* 1..6, and what they say.
GoodRows ==
    {i \in 1..Len(tables[1]) :
        /\ IsInt(Get(tables[1][i], ColGroup))
        /\ IsInt(Get(tables[1][i], ColTrack))
        /\ Int_(Get(tables[1][i], ColTrack)) \in 1..6}
GroupOf(i) == Int_(Get(tables[1][i], ColGroup))
TrackOf(i) == Int_(Get(tables[1][i], ColTrack))

\* The table has been built: neither fetch came back empty.
TableBuilt == pc = "map_done" /\ tables[1] # <<>> /\ tables[2] # <<>>

\* C7 as stated: in the table built from the rows, the group of every
\* well-formed row with a track number in 1..6 carries the canonical name of
\* that row's track number, and no other group is in the table.
C7_EveryRowKeepsItsTrack ==
    TableBuilt =>
        /\ DictKeys(group_to_track) = {GroupOf(i) : i \in GoodRows}
        /\ \A i \in GoodRows :
             TRACK_NAMES[DictGet(group_to_track, GroupOf(i), 0)] = TRACK_NAMES[TrackOf(i)]

\* C7 amended: in the table built from the rows, the group of every
\* well-formed row with a track number in 1..6 is present and carries the
\* canonical name of the track number of the last such row for that group;
\* the other rows add nothing and change nothing: the table holds these
\* groups only, with these tracks.
C7_LastRowOfGroupWins ==
    TableBuilt =>
        /\ DictKeys(group_to_track) = {GroupOf(i) : i \in GoodRows}
        /\ \A i \in GoodRows :
             LET same == {j \in GoodRows : GroupOf(j) = GroupOf(i)}
                 last == CHOOSE j \in same : \A k \in same : k <= j
             IN  /\ DictGet(group_to_track, GroupOf(i), 0) = TrackOf(last)
                 /\ TRACK_NAMES[DictGet(group_to_track, GroupOf(i), 0)]
                      = TRACK_NAMES[TrackOf(last)]

\* Two in-range rows of one group with different tracks, and after them a
\* row of that group with a track number outside 1..6.
C7_Witness ==
    /\ TableBuilt
    /\ \E i, j \in GoodRows :
         /\ i < j
         /\ GroupOf(i) = GroupOf(j)
         /\ TrackOf(i) # TrackOf(j)
         /\ \E k \in (j + 1)..Len(tables[1]) :
              /\ k \notin GoodRows
              /\ IsInt(Get(tables[1][k], ColGroup))
              /\ IsInt(Get(tables[1][k], ColTrack))
              /\ Int_(Get(tables[1][k], ColGroup)) = GroupOf(j)
         /\ DictGet(group_to_track, GroupOf(j), 0) = TrackOf(j)

====
